---- MODULE Spec2Model ----
(***************************************************************************)
(* The custom scrollbar of src/app.ts (class Scrollbar) as a state         *)
(* machine: one Scrollbar instance, the page metrics it reads, the         *)
(* browser's timer queue and the events the browser dispatches to the      *)
(* listeners the instance registers.                                       *)
(*                                                                         *)
(* Numbers.  Lengths are CSS pixels.  JavaScript numbers are modelled as   *)
(* exact fractions [n |-> numerator, d |-> denominator] in lowest terms;   *)
(* d = 0 stands for the non-finite results of a division by zero           *)
(* (n = 0: NaN, n = 1: Infinity, n = -1: -Infinity).  Time is counted in   *)
(* whole seconds.                                                          *)
(*                                                                         *)
(* Left out: the colours (Colors) and the `right` offset, which no other   *)
(* code reads.  The host's box height stands for both its clientHeight    *)
(* and the height of its bounding rectangle.                               *)
(*                                                                         *)
(* Scroll events.  Spec has the scroll events of the window, the only      *)
(* ones init() listens to.  HostSpec adds the scrolling of a host other    *)
(* than the body, which no code hears and whose scrollTop no code reads.   *)
(*                                                                         *)
(* A selector that matches no element makes the constructor throw; the     *)
(* page then lives on without an instance (thrown # "").                   *)
(***************************************************************************)
EXTENDS Integers, FiniteSets, Sequences, TLC

(***************************************************************************)
(* Bounds of the model.                                                    *)
(***************************************************************************)
\* heights (content, host box, window) range over 1..MaxHeight
MaxHeight == 3
\* number of timers the page may create, i.e. of scroll events handled
MaxTimers == 2
\* number of resize events
MaxResizes == 1

Heights == 1..MaxHeight
\* clientY of a press on the Thumb, and of pointer moves: above and below it
PressYs == {1}
MoveYs == {0, 2}

(***************************************************************************)
(* Program constants (src/app.ts).                                         *)
(***************************************************************************)
\* private readonly timeTriggerScroll = 2   (seconds)
timeTriggerScroll == 2
\* private readonly opacityBasic = 1        (in tenths)
opacityBasic == 10
\* private readonly opacityTarget = 0.2     (in tenths)
opacityTarget == 2
\* the literal 0.2 of defineStyle           (in tenths)
defineStyleOpacity == 2

\* `velocity` omitted from the parameters (undefined)
Undefined == -1
\* scrollTimeout = null
Null == 0
\* a length of a style that was never assigned
Unset == [n |-> 0, d |-> -1]

(***************************************************************************)
(* Fractions.                                                              *)
(***************************************************************************)
RECURSIVE GCD(_, _)
GCD(a, b) == IF b = 0 THEN a ELSE GCD(b, a % b)

Abs(x) == IF x < 0 THEN -x ELSE x
Sign(x) == IF x < 0 THEN -1 ELSE IF x = 0 THEN 0 ELSE 1
Min(a, b) == IF a < b THEN a ELSE b
Max(a, b) == IF a > b THEN a ELSE b

\* n/d in lowest terms with a non-negative denominator
Frac(n, d) ==
  IF d = 0 THEN [n |-> Sign(n), d |-> 0]
  ELSE LET g == GCD(Abs(n), Abs(d))
       IN [n |-> (Sign(d) * n) \div g, d |-> Abs(d) \div g]

Num(i) == [n |-> i, d |-> 1]
NaN == [n |-> 0, d |-> 0]
IsFinite(x) == x.d # 0

FMul(x, y) == Frac(x.n * y.n, x.d * y.d)
FDiv(x, y) == Frac(x.n * y.d * Sign(y.n), x.d * Abs(y.n))
FAdd(x, y) ==
  IF x.d = 0 /\ y.d = 0
  THEN (IF x.n = y.n THEN x ELSE NaN)
  ELSE Frac(x.n * y.d + y.n * x.d, x.d * y.d)
FSub(x, y) == FAdd(x, [n |-> -y.n, d |-> y.d])
FLeq(x, y) == x.d # 0 /\ y.d # 0 /\ x.n * y.d <= y.n * x.d
\* floor of a finite fraction
Floor(x) == x.n \div x.d
\* nearest integer of a finite fraction (halves round up)
Round(x) == (2 * x.n + x.d) \div (2 * x.d)

(***************************************************************************)
(* State.                                                                  *)
(***************************************************************************)
VARIABLES
  \* ---- construction parameters and page metrics
  parentFound,        \* document.querySelector(parameters.parent) is not null
  parentTag,          \* tagName of the host (this.parent), lower case
  percentage,         \* this.percentage, a fraction
  velocityParam,      \* parameters.velocity (Undefined when omitted)
  velocity,           \* this.velocity
  parentScrollHeight, \* this.parent.scrollHeight
  parentBoxHeight,    \* this.parent.clientHeight = getBoundingClientRect().height
  docContentHeight,   \* height of the document's content
  parentScrollTop,    \* this.parent.scrollTop of a host other than the body
  innerHeight,        \* window.innerHeight
  scrollY,            \* window.scrollY = document.documentElement.scrollTop
  \* ---- the browser
  scrollQueued,       \* a scroll event of the window awaits dispatch
  hovering,           \* the pointer is over the Track (this.element)
  timers,             \* pending setTimeout callbacks: [id, left (seconds)]
  timerSeq,           \* last timer handle the browser handed out
  sinceScroll,        \* seconds since handleScroll last ran, capped
  resizes,            \* number of resize events so far
  listeners,          \* number of listeners registered, per event
  \* ---- the Scrollbar instance
  isScrollbarNeeded,  \* this.isScrollbarNeeded
  created,            \* this.element / this.indicator exist (createElements ran)
  thrown,             \* the exception that ended the script, "" if none
  initialized,        \* init() has been called
  scrollTimeout,      \* this.scrollTimeout (Null or a timer handle)
  style,              \* this.style
  elStyle,            \* this.element.style: opacity, height, top
  indStyle,           \* this.indicator.style: height, translateY
  isDragging,         \* this.isDragging
  startY,             \* this.startY
  startScrollTop,     \* this.startScrollTop
  userSelect          \* document.body.style.userSelect

metricVars == <<parentFound, parentTag, percentage, velocityParam, velocity,
                parentScrollHeight, parentBoxHeight, docContentHeight>>
pageVars == <<metricVars, parentScrollTop>>
timerVars == <<timers, timerSeq, scrollTimeout, sinceScroll>>
dragVars == <<isDragging, startY, startScrollTop, userSelect>>
trackVars == <<style, elStyle>>
ctorVars == <<isScrollbarNeeded, created, thrown>>
\* the fields of the instance and the styles it writes
instanceVars == <<isScrollbarNeeded, created, scrollTimeout, style, elStyle,
                  indStyle, isDragging, startY, startScrollTop, userSelect,
                  timers, listeners>>
vars == <<parentFound, parentTag, percentage, velocityParam, velocity,
          parentScrollHeight, parentBoxHeight, docContentHeight,
          parentScrollTop, innerHeight, scrollY, scrollQueued, hovering,
          timers, timerSeq, sinceScroll, resizes, listeners,
          isScrollbarNeeded, created, thrown, initialized, scrollTimeout, style,
          elStyle, indStyle, isDragging, startY, startScrollTop, userSelect>>

(***************************************************************************)
(* Page metrics as the code reads them.                                    *)
(***************************************************************************)
\* document.documentElement.scrollHeight: the content, at least the window
DocScrollHeight(ih) == Max(docContentHeight, ih)
\* the largest scroll offset the window accepts
MaxScroll(ih) == DocScrollHeight(ih) - ih
\* document.documentElement.scrollTop
docScrollTop == scrollY
\* window.scrollY || document.documentElement.scrollTop
ScrollTop == IF scrollY # 0 THEN scrollY ELSE docScrollTop
\* this.parent.getBoundingClientRect().height
parentHeight == parentBoxHeight
\* `${opacity}` of a number given in tenths
OpacityText(tenths) ==
  IF tenths % 10 = 0 THEN ToString(tenths \div 10)
  ELSE ToString(tenths \div 10) \o "." \o ToString(tenths % 10)
\* this.element.clientHeight: the rendered height, a whole number of pixels
clientHeight(es) == IF es.height = Unset THEN 0 ELSE Round(es.height)

(***************************************************************************)
(* The methods of Scrollbar.                                               *)
(***************************************************************************)
\* faulty variant: needsScrollbar comparing with >= instead of >
needsScrollbar_Geq(ih) ==
  IF parentTag = "body"
  THEN DocScrollHeight(ih) >= ih
  ELSE parentScrollHeight >= parentBoxHeight

\* needsScrollbar({ parent }) with window.innerHeight = ih
needsScrollbar(ih) ==
  IF parentTag = "body"
  THEN DocScrollHeight(ih) > ih
  ELSE parentScrollHeight > parentBoxHeight

\* faulty variant: a constructor that goes on without a host
constructorThrows_Never(found) == FALSE

\* the constructor hands this.parent to needsScrollbar, which reads
\* parent.tagName: a TypeError when querySelector returned null
constructorThrows(found) == ~found

\* parameters.velocity ?? 1
VelocityOrDefault(v) == IF v = Undefined THEN 1 ELSE v

\* faulty variant: the larger of the two heights as the base
baseCalcul_Larger(ih) == IF parentHeight > ih THEN parentHeight ELSE ih

\* defineStyle: the base the percentage is applied to
baseCalcul(ih) == IF parentHeight > ih THEN ih ELSE parentHeight

\* faulty variant: the free space above the Track not halved
defineStyleValue_TopNotHalved(ih) ==
  LET elementHeight == FMul(Num(baseCalcul(ih)), percentage)
  IN [opacity |-> defineStyleOpacity,
      height  |-> elementHeight,
      top     |-> FSub(Num(baseCalcul(ih)), elementHeight)]

\* faulty variant: a layout pass that hides the Track
defineStyleValue_Hidden(ih) ==
  LET elementHeight == FMul(Num(baseCalcul(ih)), percentage)
  IN [opacity |-> 0,
      height  |-> elementHeight,
      top     |-> FDiv(FSub(Num(baseCalcul(ih)), elementHeight), Num(2))]

\* defineStyle: the value assigned to this.style
defineStyleValue(ih) ==
  LET elementHeight == FMul(Num(baseCalcul(ih)), percentage)
  IN [opacity |-> defineStyleOpacity,
      height  |-> elementHeight,
      top     |-> FDiv(FSub(Num(baseCalcul(ih)), elementHeight), Num(2))]

\* faulty variant: updateScrollbar that leaves the opacity on display
updateScrollbar_KeepOpacity(st) ==
  [opacity |-> elStyle.opacity, height |-> st.height, top |-> st.top]

\* updateScrollbar: this.style written to this.element.style
updateScrollbar(st) ==
  [opacity |-> OpacityText(st.opacity), height |-> st.height, top |-> st.top]

\* styleActivity({ opacity }) applied to the element style es
styleActivity(es, opacity) == [es EXCEPT !.opacity = OpacityText(opacity)]

\* element.style.<property> = `...${value}px...`: a declaration whose number
\* is NaN or Infinity does not parse, and the style keeps the value it had
cssLength(old, value) == IF IsFinite(value) THEN value ELSE old

\* updateIndicator with the Track style es and window.innerHeight = ih
updateIndicator(es, ih) ==
  LET scrollTop == ScrollTop
      totalHeight == parentScrollHeight - ih
      progressHeight ==
        FMul(FDiv(Num(ih), Num(parentScrollHeight)), Num(clientHeight(es)))
      scrollPercent == FDiv(Num(scrollTop), Num(totalHeight))
      indicatorTop ==
        FMul(scrollPercent, FSub(Num(clientHeight(es)), progressHeight))
  IN [height     |-> cssLength(indStyle.height, progressHeight),
      translateY |-> cssLength(indStyle.translateY, indicatorTop)]

NoListeners ==
  [scroll |-> 0, resize |-> 0, mousedown |-> 0, mousemove |-> 0,
   mouseup |-> 0, mouseenter |-> 0, mouseleave |-> 0]

\* faulty variant: defineStyle that registers the hover pair only once
defineStyleListeners_Once(ls) ==
  [ls EXCEPT !.mouseenter = Max(@, 1), !.mouseleave = Max(@, 1)]

\* the listeners one call of defineStyle adds to the Track
defineStyleListeners(ls) ==
  [ls EXCEPT !.mouseenter = @ + 1, !.mouseleave = @ + 1]

\* the listeners init() adds after its call of defineStyle
initListeners(ls) ==
  [ls EXCEPT !.scroll = @ + 1, !.resize = @ + 1, !.mousedown = @ + 1,
             !.mousemove = @ + 1, !.mouseup = @ + 1]

(***************************************************************************)
(* Initial states: the instance right after `new Scrollbar(parameters)`.   *)
(***************************************************************************)
Percentages == {Frac(17, 20)}
VelocityParams == {Undefined, 2}

Init ==
  /\ parentFound \in BOOLEAN
  /\ thrown = IF constructorThrows(parentFound) THEN "TypeError" ELSE ""
  /\ parentTag \in IF parentFound THEN {"body", "div"} ELSE {""}
  /\ percentage \in Percentages
  /\ velocityParam \in VelocityParams
  \* a constructor that throws never gets to assign the velocity
  /\ velocity = IF thrown # "" THEN Undefined
                ELSE VelocityOrDefault(velocityParam)
  \* no host, no box
  /\ parentBoxHeight \in IF parentFound THEN Heights ELSE {0}
  /\ parentScrollHeight \in
       IF parentFound THEN {h \in Heights : h >= parentBoxHeight} ELSE {0}
  /\ innerHeight \in Heights
  \* the body's content is the document's; another host lies in the document
  /\ docContentHeight \in
       IF parentTag = "body" THEN {parentScrollHeight}
       ELSE {h \in Heights : h >= parentBoxHeight}
  /\ parentScrollTop = 0
  /\ scrollY = 0
  /\ scrollQueued = FALSE
  /\ hovering = FALSE
  /\ timers = {}
  /\ timerSeq = 0
  /\ sinceScroll = timeTriggerScroll
  /\ resizes = 0
  /\ listeners = NoListeners
  \* the field starts as true; a constructor that throws never gets to
  \* assign it or to call createElements
  /\ isScrollbarNeeded = (thrown # "" \/ needsScrollbar(innerHeight))
  /\ created = (thrown = "" /\ isScrollbarNeeded)
  /\ initialized = FALSE
  /\ scrollTimeout = Null
  /\ style = [opacity |-> opacityTarget, height |-> Unset, top |-> Unset]
  /\ elStyle = [opacity |-> "", height |-> Unset, top |-> Unset]
  /\ indStyle = [height |-> Unset, translateY |-> Unset]
  /\ isDragging = FALSE
  /\ startY = 0
  /\ startScrollTop = 0
  /\ userSelect = ""

\* the script has run to its end, or was ended by an exception: from here
\* on the browser dispatches events
scriptDone == initialized \/ thrown # ""

(***************************************************************************)
(* init(): returns at once when no scrollbar is needed; otherwise lays the *)
(* Track out, places the Thumb and registers the listeners.                *)
(***************************************************************************)
InitCall ==
  /\ thrown = ""
  /\ ~initialized
  /\ initialized' = TRUE
  /\ IF ~isScrollbarNeeded
     THEN UNCHANGED <<style, elStyle, indStyle, listeners>>
     ELSE /\ style' = defineStyleValue(innerHeight)
          /\ elStyle' = updateScrollbar(style')
          /\ indStyle' = updateIndicator(elStyle', innerHeight)
          /\ listeners' = initListeners(defineStyleListeners(listeners))
  /\ UNCHANGED <<pageVars, innerHeight, scrollY, scrollQueued, hovering,
                 timerVars, resizes, ctorVars, dragVars>>

(***************************************************************************)
(* handleScroll, the window's scroll listener.                             *)
(***************************************************************************)
\* faulty variant: clearTimeout that cancels nothing
clearTimeout_Noop(ts, handle) == ts

\* clearTimeout(handle) on the browser's pending timers
clearTimeout(ts, handle) == {t \in ts : t.id # handle}

\* faulty variant: handleScroll that schedules without cancelling the pending timer
handleScrollTimers_NoClear ==
  timers \cup {[id |-> timerSeq + 1, left |-> timeTriggerScroll]}

\* the timers after `if (this.scrollTimeout) clearTimeout(this.scrollTimeout)`
\* followed by window.setTimeout(..., timeTriggerScroll * 1000)
handleScrollTimers ==
  (IF scrollTimeout # Null THEN clearTimeout(timers, scrollTimeout) ELSE timers)
    \cup {[id |-> timerSeq + 1, left |-> timeTriggerScroll]}

handleScroll ==
  /\ elStyle' = styleActivity(elStyle, opacityBasic)
  /\ timers' = handleScrollTimers
  /\ timerSeq' = timerSeq + 1
  /\ scrollTimeout' = timerSeq + 1
  /\ indStyle' = updateIndicator(elStyle', innerHeight)
  /\ sinceScroll' = 0
  /\ UNCHANGED <<style, dragVars, listeners>>

\* the browser dispatches the queued scroll event of the window
ScrollEvent ==
  /\ scriptDone
  /\ scrollQueued
  /\ scrollQueued' = FALSE
  /\ IF listeners.scroll > 0
     THEN /\ timerSeq < MaxTimers
          /\ handleScroll
     ELSE UNCHANGED <<elStyle, timerVars, indStyle, style, dragVars, listeners>>
  /\ UNCHANGED <<pageVars, innerHeight, scrollY, hovering, resizes, ctorVars,
                 initialized>>

\* the user scrolls the window (wheel, keyboard, native scrollbar) to offset y
UserScroll(y) ==
  /\ scriptDone
  /\ y \in 0..MaxScroll(innerHeight)
  /\ y # scrollY
  /\ scrollY' = y
  /\ scrollQueued' = TRUE
  /\ UNCHANGED <<pageVars, innerHeight, hovering, timerVars, resizes,
                 listeners, ctorVars, initialized, trackVars, indStyle,
                 dragVars>>

\* the offsets the user scrolls a host other than the body to: top, bottom
HostOffsets == {0, parentScrollHeight - parentBoxHeight}

\* the user scrolls the host itself, an element other than the body, to
\* offset y.  The scroll event is dispatched on the host and does not
\* bubble to the window; init() registers no listener on the host, so no
\* code runs.
HostScroll(y) ==
  /\ scriptDone
  /\ parentFound
  /\ parentTag # "body"
  /\ y \in HostOffsets
  /\ y # parentScrollTop
  /\ parentScrollTop' = y
  /\ UNCHANGED <<metricVars, innerHeight, scrollY, scrollQueued, hovering,
                 timerVars, resizes, listeners, ctorVars, initialized,
                 trackVars, indStyle, dragVars>>

(***************************************************************************)
(* The quiet-period timer.                                                 *)
(***************************************************************************)
\* faulty variant: a callback that leaves the opacity alone
timeoutCallback_Keep(es) == es

\* the callback handed to setTimeout in handleScroll
timeoutCallback(es) == styleActivity(es, opacityTarget)

\* the browser runs a timer whose delay has elapsed
TimerFire ==
  \E t \in timers :
    /\ t.left = 0
    /\ timers' = timers \ {t}
    /\ elStyle' = timeoutCallback(elStyle)
    /\ UNCHANGED <<pageVars, innerHeight, scrollY, scrollQueued, hovering,
                   timerSeq, scrollTimeout, sinceScroll, resizes, listeners,
                   ctorVars, initialized, style, indStyle, dragVars>>

\* one second passes
Tick ==
  /\ scriptDone
  /\ timers' = {[t EXCEPT !.left = Max(@ - 1, 0)] : t \in timers}
  /\ sinceScroll' = Min(sinceScroll + 1, timeTriggerScroll)
  /\ UNCHANGED <<pageVars, innerHeight, scrollY, scrollQueued, hovering,
                 timerSeq, scrollTimeout, resizes, listeners, ctorVars,
                 initialized, trackVars, indStyle, dragVars>>

(***************************************************************************)
(* Resize: the window's resize listener is defineStyle.                    *)
(***************************************************************************)
defineStyle(ih) ==
  /\ style' = defineStyleValue(ih)
  /\ elStyle' = updateScrollbar(style')
  /\ listeners' = defineStyleListeners(listeners)

Resize(h) ==
  /\ scriptDone
  /\ resizes < MaxResizes
  /\ h # innerHeight
  /\ resizes' = resizes + 1
  /\ innerHeight' = h
  \* the browser keeps the scroll offset inside the new scrollable range
  /\ scrollY' = Min(scrollY, MaxScroll(h))
  /\ scrollQueued' = (scrollQueued \/ scrollY' # scrollY)
  /\ IF listeners.resize > 0
     THEN defineStyle(h)
     ELSE UNCHANGED <<style, elStyle, listeners>>
  /\ UNCHANGED <<pageVars, hovering, timerVars, ctorVars, initialized,
                 indStyle, dragVars>>

(***************************************************************************)
(* Hover: the mouseenter / mouseleave listeners defineStyle puts on the    *)
(* Track.  Every registered copy of a listener runs; they all assign the   *)
(* same opacity.                                                           *)
(***************************************************************************)
\* faulty variant: hover-enter that applies the resting opacity
mouseenterListener_Target(es) == styleActivity(es, opacityTarget)
\* faulty variant: hover-leave that spares the opacity while a timer is pending
mouseleaveListener_UnlessScrolled(es) ==
  IF timers # {} THEN es ELSE styleActivity(es, opacityTarget)

mouseenterListener(es) == styleActivity(es, opacityBasic)
mouseleaveListener(es) == styleActivity(es, opacityTarget)

HoverEnter ==
  /\ scriptDone
  /\ created
  /\ ~hovering
  /\ hovering' = TRUE
  /\ elStyle' = IF listeners.mouseenter > 0
                THEN mouseenterListener(elStyle) ELSE elStyle
  /\ UNCHANGED <<pageVars, innerHeight, scrollY, scrollQueued, timerVars,
                 resizes, listeners, ctorVars, initialized, style, indStyle,
                 dragVars>>

HoverLeave ==
  /\ scriptDone
  /\ created
  /\ hovering
  /\ hovering' = FALSE
  /\ elStyle' = IF listeners.mouseleave > 0
                THEN mouseleaveListener(elStyle) ELSE elStyle
  /\ UNCHANGED <<pageVars, innerHeight, scrollY, scrollQueued, timerVars,
                 resizes, listeners, ctorVars, initialized, style, indStyle,
                 dragVars>>

(***************************************************************************)
(* Drag: startDrag (mousedown on the Thumb), onDrag (mousemove on the      *)
(* window), stopDrag (mouseup on the window).                              *)
(***************************************************************************)
startDrag(clientY) ==
  /\ isDragging' = TRUE
  /\ startY' = clientY
  /\ startScrollTop' = ScrollTop
  /\ userSelect' = "none"

\* faulty variant: the offset counted from the current scroll position
onDragTarget_FromCurrent(clientY) ==
  LET deltaY == clientY - startY
      scrollPercent == FDiv(Num(deltaY * velocity), Num(clientHeight(elStyle)))
      totalHeight == parentScrollHeight - innerHeight
  IN FAdd(Num(ScrollTop), FMul(scrollPercent, Num(totalHeight)))

\* the offset onDrag hands to window.scrollTo
onDragTarget(clientY) ==
  LET deltaY == clientY - startY
      scrollPercent == FDiv(Num(deltaY * velocity), Num(clientHeight(elStyle)))
      totalHeight == parentScrollHeight - innerHeight
  IN FAdd(Num(startScrollTop), FMul(scrollPercent, Num(totalHeight)))

\* window.scrollTo(0, y): a non-finite y counts as 0, the offset is kept
\* inside the scrollable range, in whole pixels
scrollTo(y) ==
  IF ~IsFinite(y) THEN 0
  ELSE Max(0, Min(Floor(y), MaxScroll(innerHeight)))

\* faulty variant: stopDrag that leaves text selection disabled
stopDrag_KeepSelect ==
  /\ isDragging' = FALSE
  /\ UNCHANGED <<userSelect, startY, startScrollTop>>

stopDrag ==
  /\ isDragging' = FALSE
  /\ userSelect' = ""
  /\ UNCHANGED <<startY, startScrollTop>>

\* the pointer is pressed on the Thumb, which lies inside the Track
MouseDown(clientY) ==
  /\ scriptDone
  /\ created
  /\ hovering
  /\ IF listeners.mousedown > 0
     THEN startDrag(clientY)
     ELSE UNCHANGED dragVars
  /\ UNCHANGED <<pageVars, innerHeight, scrollY, scrollQueued, hovering,
                 timerVars, resizes, listeners, ctorVars, initialized,
                 trackVars, indStyle>>

\* faulty variant: onDrag that also shows the indicator
onDrag_Activate(clientY) ==
  IF ~isDragging
  THEN UNCHANGED <<scrollY, scrollQueued, elStyle>>
  ELSE /\ scrollY' = scrollTo(onDragTarget(clientY))
       /\ scrollQueued' = (scrollQueued \/ scrollY' # scrollY)
       /\ elStyle' = styleActivity(elStyle, opacityBasic)

\* faulty variant: onDrag without its isDragging test
onDrag_NoGuard(clientY) ==
  /\ scrollY' = scrollTo(onDragTarget(clientY))
  /\ scrollQueued' = (scrollQueued \/ scrollY' # scrollY)
  /\ UNCHANGED elStyle

\* onDrag: nothing unless a drag is on; else scrolls the window, which
\* queues a scroll event when the offset changes
onDrag(clientY) ==
  IF ~isDragging
  THEN UNCHANGED <<scrollY, scrollQueued, elStyle>>
  ELSE /\ scrollY' = scrollTo(onDragTarget(clientY))
       /\ scrollQueued' = (scrollQueued \/ scrollY' # scrollY)
       /\ UNCHANGED elStyle

\* the pointer moves anywhere in the window
MouseMove(clientY) ==
  /\ scriptDone
  /\ UNCHANGED <<timerVars, dragVars, hovering, innerHeight, resizes,
                 listeners, pageVars, ctorVars, initialized, style,
                 indStyle>>
  /\ IF listeners.mousemove > 0
     THEN onDrag(clientY)
     ELSE UNCHANGED <<scrollY, scrollQueued, elStyle>>

\* the pointer is released anywhere in the window
MouseUp ==
  /\ scriptDone
  /\ IF listeners.mouseup > 0
     THEN stopDrag
     ELSE UNCHANGED dragVars
  /\ UNCHANGED <<pageVars, innerHeight, scrollY, scrollQueued, hovering,
                 timerVars, resizes, listeners, ctorVars, initialized,
                 trackVars, indStyle>>

(***************************************************************************)
(* Specification.                                                          *)
(***************************************************************************)
Next ==
  \/ InitCall
  \/ \E y \in 0..MaxHeight : UserScroll(y)
  \/ ScrollEvent
  \/ TimerFire
  \/ Tick
  \/ \E h \in Heights : Resize(h)
  \/ HoverEnter
  \/ HoverLeave
  \/ \E y \in PressYs : MouseDown(y)
  \/ \E y \in MoveYs : MouseMove(y)
  \/ MouseUp

Spec == Init /\ [][Next]_vars

\* The same machine with the user also scrolling a host other than the body.
\* No code reads that host's scrollTop and no listener hears its scroll
\* event, so these steps change nothing Spec looks at.
HostNext == Next \/ \E y \in 0..MaxHeight : HostScroll(y)

HostSpec == Init /\ [][HostNext]_vars

\* The same machine on the page of the example at the end of app.ts (the host
\* is the body, velocity 2), with the browser bound to run due timers and
\* time bound to pass.
LiveInit ==
  /\ Init
  /\ parentTag = "body"
  /\ velocity = 2
  /\ parentScrollHeight = MaxHeight
  /\ parentBoxHeight = MaxHeight
  /\ innerHeight = 1

LiveSpec == LiveInit /\ [][Next]_vars /\ WF_vars(TimerFire) /\ WF_vars(Tick)

(***************************************************************************)
(* Properties.                                                             *)
(***************************************************************************)
Resting == OpacityText(opacityTarget)
Active == OpacityText(opacityBasic)
\* the scroll event reached handleScroll
ScrollHandled == ScrollEvent /\ listeners.scroll > 0

\* C1: the timer-driven drop to the resting opacity never happens earlier
\* than timeTriggerScroll seconds after the most recent scroll event: a
\* scroll that arrives while a timer is pending cancels it and starts a
\* fresh period.
C1_TimerNotBeforeQuietPeriod ==
  [][TimerFire => sinceScroll >= timeTriggerScroll]_vars

\* the timer of a second scroll event has fired
C1_Witness ==
  /\ timerSeq = 2
  /\ timers = {}
  /\ elStyle.opacity = Resting
  /\ sinceScroll >= timeTriggerScroll

\* C2: at most one quiet-period timer is pending at any time.
C2_AtMostOnePendingTimer == Cardinality(timers) <= 1

\* a second scroll event has been handled and its timer is pending
C2_Witness ==
  /\ timerSeq = 2
  /\ timers = {[id |-> 2, left |-> timeTriggerScroll]}

\* C3: when the quiet period expires while the pointer hovers over the
\* Track, the indicator does not drop to the resting opacity.
C3_NoTimerDropWhileHovering ==
  [][(TimerFire /\ hovering) => elStyle'.opacity # Resting]_vars

\* C4: a hover-enter while a quiet-period timer is pending cancels it, so
\* the timer a scroll scheduled never fires after the pointer has entered.
C4_HoverEnterCancelsTimer ==
  [][HoverEnter => timers' = {}]_vars

\* C5: a hover-leave sets the resting opacity at once, in every state, also
\* while the timer of a scroll less than timeTriggerScroll seconds ago is
\* pending.
C5_HoverLeaveRests ==
  [][HoverLeave => elStyle'.opacity = Resting]_vars

\* the pointer has left the Track in the second of a scroll event, whose
\* timer is pending: nothing else can have dropped the opacity
C5_Witness ==
  /\ ~hovering
  /\ elStyle.opacity = Resting
  /\ sinceScroll = 0
  /\ resizes = 0
  /\ \E t \in timers : t.left = timeTriggerScroll

\* C6: the indicator is Resting after init(); from Resting every handled
\* scroll event and every hover-enter make it Active, and no other event
\* does.
C6_RestingToActive ==
  [][ /\ (InitCall /\ isScrollbarNeeded) => elStyle'.opacity = Resting
      /\ (ScrollHandled \/ HoverEnter) => elStyle'.opacity = Active
      /\ (elStyle.opacity = Resting /\ elStyle'.opacity = Active)
            => (ScrollHandled \/ HoverEnter) ]_vars

\* the first scroll event has made the indicator Active, the pointer away
C6_Witness ==
  /\ elStyle.opacity = Active
  /\ timerSeq = 1
  /\ ~hovering
  /\ sinceScroll = 0

\* C7: once a quiet-period timer is pending, the timer of the last scroll
\* event fires and the indicator reaches the resting opacity.
C7_EventuallyResting ==
  (timers # {}) ~> (timers = {} /\ elStyle.opacity = Resting)

\* the timer of the only scroll event has fired and dropped the opacity
C7_Witness ==
  /\ timerSeq = 1
  /\ timers = {}
  /\ elStyle.opacity = Resting
  /\ ~hovering
  /\ resizes = 0

\* the host does not overflow, by the metrics needsScrollbar compares
NoOverflow ==
  /\ parentFound
  /\ IF parentTag = "body"
     THEN docContentHeight <= innerHeight
     ELSE parentScrollHeight <= parentBoxHeight

\* C8: a host that does not overflow at construction gets no Track and no
\* Thumb, init() registers no listener, and no later event changes the
\* instance.
C8_NotNeededIsInert ==
  [][ /\ (resizes = 0 /\ NoOverflow) => ~isScrollbarNeeded
      /\ ~isScrollbarNeeded =>
           /\ ~created /\ ~created'
           /\ listeners = NoListeners /\ listeners' = NoListeners
           /\ UNCHANGED instanceVars ]_vars

\* an instance that needs no scrollbar has seen a resize and a scroll event
C8_Witness ==
  /\ initialized
  /\ ~isScrollbarNeeded
  /\ resizes = 1
  /\ scrollY > 0
  /\ ~scrollQueued

\* C9: whenever the host's content fits the viewport, also after a resize,
\* the Track and the Thumb are absent or inert: no scroll, hover or drag
\* event changes the opacity, the Thumb or the scroll offset.
C9_InertWhenContentFits ==
  [][ (NoOverflow /\ (ScrollEvent \/ HoverEnter \/ HoverLeave \/ MouseUp
                       \/ (\E y \in PressYs : MouseDown(y))
                       \/ (\E y \in MoveYs : MouseMove(y))))
        => UNCHANGED <<elStyle, indStyle, scrollY>> ]_vars

\* C10: after init() and after every resize the Track height is the height
\* fraction of the smaller of the host's visible height and the window
\* height, as they are then.
C10_TrackHeight ==
  (initialized /\ created) =>
     elStyle.height = FMul(Num(Min(parentBoxHeight, innerHeight)), percentage)

\* after a resize the host is lower than the window and than its content
C10_Witness ==
  /\ initialized
  /\ created
  /\ resizes = 1
  /\ parentBoxHeight < innerHeight
  /\ parentBoxHeight < parentScrollHeight
  /\ elStyle.height = FMul(Num(parentBoxHeight), percentage)

\* C11: after init() and after every resize the Track is vertically centred
\* within its base, the smaller of the host's visible height and the window
\* height: top + height / 2 = base / 2.
C11_TrackCentred ==
  (initialized /\ created) =>
     FAdd(elStyle.top, FDiv(elStyle.height, Num(2)))
       = FDiv(Num(Min(parentBoxHeight, innerHeight)), Num(2))

\* a resize has moved the Track: the window is now the base, one pixel high
C11_Witness ==
  /\ initialized
  /\ created
  /\ resizes = 1
  /\ innerHeight = 1
  /\ parentBoxHeight > 1
  /\ elStyle.top = FDiv(FSub(Num(1), percentage), Num(2))

\* the rendered height of the Track, which updateIndicator reads
trackHeight == clientHeight(elStyle)

\* C12: wherever the indicator exists, the Thumb height is the ratio of the
\* window height to the host's scroll height, applied to the Track height,
\* and never exceeds the Track height; for the body as for any other host
\* that needs a scrollbar.
C12_ThumbHeight ==
  (initialized /\ created) =>
     /\ indStyle.height =
          FMul(FDiv(Num(innerHeight), Num(parentScrollHeight)), Num(trackHeight))
     /\ FLeq(indStyle.height, Num(trackHeight))

\* the translation of the Thumb in effect: none while no transform is set
thumbTranslation(is) == IF is.translateY = Unset THEN Num(0) ELSE is.translateY
\* updateIndicator runs: in init() and in the window's scroll listener
ThumbUpdate == (InitCall /\ isScrollbarNeeded) \/ ScrollHandled

\* C13: a Thumb update whose scroll range, the host's scroll height minus
\* the window height, is zero or negative takes the scroll fraction as 0:
\* the Thumb translation is 0 afterwards.
C13_DegenerateRangeIsZero ==
  [][(ThumbUpdate /\ parentScrollHeight - innerHeight <= 0)
       => thumbTranslation(indStyle') = Num(0)]_vars

\* the height of the Thumb in effect
thumbHeight(is) == IF is.height = Unset THEN Num(0) ELSE is.height

\* C14: after every Thumb update the translation lies between 0 and the
\* Track height minus the Thumb height, so the Thumb stays inside the Track;
\* it is 0 at scroll offset 0 and exactly the Track height minus the Thumb
\* height at the largest offset of the host's scroll range.  Stated for the
\* updates whose scroll range is positive; C13 is about the others.
C14_ThumbInsideTrack ==
  [][(ThumbUpdate /\ parentScrollHeight - innerHeight > 0) =>
       LET room == FSub(Num(clientHeight(elStyle')), thumbHeight(indStyle'))
       IN /\ FLeq(Num(0), thumbTranslation(indStyle'))
          /\ FLeq(thumbTranslation(indStyle'), room)
          /\ scrollY = 0 => thumbTranslation(indStyle') = Num(0)
          /\ scrollY = parentScrollHeight - innerHeight
               => thumbTranslation(indStyle') = room]_vars

\* C15: while dragging, a pointer move to clientY asks the window for the
\* offset startScrollTop + ((clientY - startY) * velocity / Track height)
\* * (scroll height of the host - window height), where velocity is the
\* configured one, or 1 when none was given: a value fixed by the pointer's
\* current Y and the values captured at the press.
C15_DragTarget ==
  isDragging =>
    \A y \in MoveYs :
      LET v == IF velocityParam = Undefined THEN 1 ELSE velocityParam
          \* the offset wanted, as the fraction num / trackHeight
          num == startScrollTop * trackHeight
                   + (y - startY) * v * (parentScrollHeight - innerHeight)
          asked == onDragTarget(y)
      IN /\ trackHeight > 0
         /\ asked.d > 0
         /\ asked.n * trackHeight = num * asked.d
         \* the window settles on the whole pixel below, within its range
         /\ scrollTo(asked) = Max(0, Min(num \div trackHeight,
                                         MaxScroll(innerHeight)))

\* during a drag pressed at offset 0, with no velocity configured, the window
\* has left that offset and its scroll event awaits dispatch
C15_Witness ==
  /\ isDragging
  /\ velocityParam = Undefined
  /\ startScrollTop = 0
  /\ scrollY > 0
  /\ scrollQueued
  /\ timerSeq = 0

\* C16: text selection on the page is disabled exactly while a drag is on:
\* the press on the Thumb sets both, the release clears both.
C16_NoSelectIffDragging == (userSelect = "none") <=> isDragging

\* a drag has been started by a press and ended by a release
C16_Witness ==
  /\ startY \in PressYs
  /\ ~isDragging
  /\ userSelect = ""

\* C17: when the host selector matches no element, construction ends with
\* an exception and nothing is done with the absent host: no Track and no
\* Thumb exist, init() does not run, no listener is registered, no timer is
\* set and no geometry is computed, whatever happens on the page afterwards.
C17_MissingHostFails ==
  ~parentFound =>
     /\ thrown = "TypeError"
     /\ ~created
     /\ ~initialized
     /\ listeners = NoListeners
     /\ timers = {}
     /\ elStyle = [opacity |-> "", height |-> Unset, top |-> Unset]
     /\ indStyle = [height |-> Unset, translateY |-> Unset]

\* on a page without the host the window has been resized and scrolled
C17_Witness ==
  /\ ~parentFound
  /\ thrown # ""
  /\ resizes = 1
  /\ scrollY > 0
  /\ ~scrollQueued

\* C18: a resize recomputes the Thumb as a scroll does: right after every
\* resize the Thumb height is the ratio of the new window height to the
\* host's scroll height applied to the new Track height, and the Thumb
\* translation is the scroll fraction of the room left in the new Track,
\* without a scroll event in between.
C18_ResizeUpdatesThumb ==
  [][((\E h \in Heights : Resize(h)) /\ created) =>
       LET track == Num(clientHeight(elStyle'))
           height == FMul(FDiv(Num(innerHeight'), Num(parentScrollHeight)), track)
           range == parentScrollHeight - innerHeight'
       IN /\ thumbHeight(indStyle') = height
          /\ range > 0 =>
               thumbTranslation(indStyle')
                 = FMul(FDiv(Num(scrollY'), Num(range)), FSub(track, height))]_vars

\* defineStyle runs: in init() and in the window's resize listener
LayoutPass ==
  \/ InitCall /\ isScrollbarNeeded
  \/ (\E h \in Heights : Resize(h)) /\ listeners.resize > 0

\* C19: every layout pass, in init() and on each resize, sets the Track
\* opacity to 0.2 whatever the indicator showed, also while the pointer
\* hovers or a quiet-period timer is pending, and leaves the pending timer
\* and the drag session as they were.
C19_LayoutPassRests ==
  [][LayoutPass =>
       /\ elStyle'.opacity = Resting
       /\ UNCHANGED <<timers, scrollTimeout, isDragging, startY,
                      startScrollTop, userSelect>>]_vars

\* a resize in the second of a scroll event, during a drag with the pointer
\* over the Track: only the layout pass can have set the resting opacity
C19_Witness ==
  /\ resizes = 1
  /\ hovering
  /\ isDragging
  /\ sinceScroll = 0
  /\ \E t \in timers : t.left = timeTriggerScroll
  /\ elStyle.opacity = Resting

\* one of the three drag handlers is dispatched
DragEvent ==
  \/ \E y \in PressYs : MouseDown(y)
  \/ \E y \in MoveYs : MouseMove(y)
  \/ MouseUp

hostScrollTop == IF parentTag = "body" THEN scrollY ELSE parentScrollTop
hostRange(ih) ==
  IF parentTag = "body"
  THEN parentScrollHeight - ih
  ELSE parentScrollHeight - parentBoxHeight
\* a scroll event of the host: the window's for the body, else the host's own
HostScrollEvent ==
  \/ parentTag = "body" /\ ScrollHandled
  \/ \E y \in 0..MaxHeight : HostScroll(y)

\* C21: on every scroll event of the host, the body or another scrollable
\* element, the Thumb translation is recomputed from that host's scroll
\* offset and that host's scrollable range: afterwards it is the fraction
\* offset / range of the room the Thumb has in the Track.
C21_ThumbTracksHost ==
  [][(HostScrollEvent /\ created /\ hostRange(innerHeight) > 0) =>
       thumbTranslation(indStyle')
         = FMul(FDiv(Num(hostScrollTop'), Num(hostRange(innerHeight))),
                FSub(Num(clientHeight(elStyle')), thumbHeight(indStyle')))]_vars

\* C22: the drag controller goes from Idle to Dragging only by a press on
\* the Thumb and from Dragging to Idle only by a release; a pointer move
\* while Idle changes neither the scroll offset nor the instance (start
\* pointer Y, start scroll offset, opacity, timer); after every release the
\* controller is Idle.
C22_DragController ==
  [][ /\ (~isDragging /\ isDragging') => \E y \in PressYs : MouseDown(y)
      /\ (isDragging /\ ~isDragging') => MouseUp
      /\ (~isDragging /\ ~UNCHANGED <<scrollY, scrollQueued, startY,
                                      startScrollTop, elStyle, indStyle,
                                      timers, scrollTimeout>>)
           => ~(\E y \in MoveYs : MouseMove(y))
      /\ isDragging' => ~MouseUp ]_vars

\* a drag has moved the window and was ended by a release; the scroll event
\* has been dispatched and the controller is Idle
C22_Witness ==
  /\ ~isDragging
  /\ startY \in PressYs
  /\ scrollY # startScrollTop
  /\ ~scrollQueued
  /\ timerSeq > 0

\* C23: once init() has run on an indicator that exists, the Track opacity
\* is one of exactly two values, the resting 0.2 or the active 1, whatever
\* scroll, resize, hover, drag and timer events have happened.
C23_TwoOpacities ==
  (initialized /\ created) => elStyle.opacity \in {"0.2", "1"}

\* both levels have been shown since a resize: the indicator is active with
\* its timer pending, the pointer away
C23_Witness ==
  /\ initialized
  /\ created
  /\ resizes = 1
  /\ timerSeq = 2
  /\ timers # {}
  /\ ~hovering
  /\ elStyle.opacity = "1"

\* C24: every call of defineStyle, one in init() and one per resize event,
\* adds a mouseenter / mouseleave pair to the Track and none is removed:
\* after init() and n resize events the Track carries n + 1 pairs, while
\* the scroll, resize, mousemove and mouseup listeners of the window and the
\* mousedown listener of the Thumb number exactly one each.
C24_HoverListenersAccumulate ==
  (initialized /\ isScrollbarNeeded) =>
     /\ listeners.mouseenter = resizes + 1
     /\ listeners.mouseleave = resizes + 1
     /\ listeners.scroll = 1
     /\ listeners.resize = 1
     /\ listeners.mousedown = 1
     /\ listeners.mousemove = 1
     /\ listeners.mouseup = 1

\* a resize event has added a second pair of hover listeners
C24_Witness ==
  /\ initialized
  /\ resizes = MaxResizes
  /\ listeners.mouseenter = MaxResizes + 1
  /\ listeners.mouseleave = MaxResizes + 1
  /\ listeners.resize = 1

====
